---- MODULE Spec2Model ----
(***************************************************************************)
(* Model of the MCP gateway of mcp-router:                                 *)
(*   - MCPHttpServer (http server): the auth middleware, the four routes   *)
(*     POST /mcp, POST /mcp/aggregator, GET /mcp/sse, POST /mcp/messages   *)
(*     and the SSE session table (sseSessions, sseSessionProjects);        *)
(*   - EntryMCPService: listMCPTools / callMCPTool and their validation.   *)
(* The token validator, the project repository, the workspace manager, the *)
(* aggregator and the backend registry are collaborators: their answers    *)
(* are inputs drawn from small sets.                                       *)
(***************************************************************************)
EXTENDS Integers, Sequences, FiniteSets, TLC

VARIABLES
    remote,              \* getPlatformAPIManager().isRemoteWorkspace()
    nextSid,             \* number of SSE transports created so far
    sseSessions,         \* Map sessionId -> transport (the transport is named by its id)
    sseSessionProjects,  \* Map sessionId -> projectId | null
    stage,               \* position of each GET /mcp/sse handler
    conn,                \* state of each SSE response: none, open, ended, closed
    frames,              \* what has been written to each SSE response body
    last,                \* the request handled last and what was done with it
    registry,            \* the backend server known to the server manager
    liveTools,           \* the tools that server advertises right now
    call,                \* the Entry service call in flight, or the one just finished
    facade,              \* the Entry server request in flight, or the one just finished
    logger,              \* how the logging collaborator answers: ok, throwsOnce, throws
    now,                 \* the time, in ticks
    watcher,             \* SkillsWatcher: debounceTimer, the live timeouts, getServers
    skillsConfig,        \* getSkillsRepository().getConfig(): enabled, autoSync
    burst,               \* the auto-sync triggers that are waiting for their sync
    lastRun              \* the last run of syncNow

gatewayVars == <<remote, nextSid, sseSessions, sseSessionProjects, stage, conn,
                 frames, last>>

entryVars == <<registry, liveTools, call, facade, logger>>

\* what the handlers of the gateway, and those of the Entry server, leave alone
watcherVars == <<now, watcher, skillsConfig, burst, lastRun>>

otherThanGateway == <<entryVars, watcherVars>>

otherThanEntry == <<gatewayVars, watcherVars>>

otherThanWatcher == <<gatewayVars, entryVars>>

vars == <<remote, nextSid, sseSessions, sseSessionProjects, stage, conn, frames, last,
          registry, liveTools, call, facade, logger,
          now, watcher, skillsConfig, burst, lastRun>>

----------------------------------------------------------------------------
(* Bounds and input domains *)

MaxSessions == 2

SessionIds == 1..MaxSessions

\* a session id a request can name: 0 is "no / empty value"
SidInputs == 0..MaxSessions

Null == "<null>"
Undefined == "<undefined>"

\* @mcp_router/shared
UNASSIGNED_PROJECT_ID == "__unassigned__"

\* Authorization header values: absent, or a string with or without "Bearer "
TokenIds == {"tokA", "tokX", "tokY"}

NoAuth == [present |-> FALSE, bearer |-> FALSE, id |-> ""]

AuthHeaders ==
    {NoAuth}
    \cup {[present |-> TRUE, bearer |-> FALSE, id |-> ""]}
    \cup [present : {TRUE}, bearer : BOOLEAN, id : TokenIds]

\* project header values
ProjectHeaders == {Undefined, "", UNASSIGNED_PROJECT_ID, "projA", " projA ", "ghost"}

\* request bodies: the shape of params and a caller-supplied params._meta
NoMeta == [has |-> FALSE, token |-> "", projectId |-> ""]

CallerMeta == [has |-> TRUE, token |-> "tokEvil", projectId |-> "idEvil"]

Bodies ==
    { [params |-> "undefined", meta |-> NoMeta],
      [params |-> "object", meta |-> NoMeta],
      [params |-> "object", meta |-> CallerMeta],
      [params |-> "other", meta |-> NoMeta] }

NoBody == [params |-> "none", meta |-> NoMeta]

----------------------------------------------------------------------------
(* Collaborators *)

\* TokenValidator.validateToken: {isValid, error?}
validateToken(tokenId) ==
    IF tokenId = "tokA" THEN [isValid |-> TRUE, error |-> Undefined]
    ELSE IF tokenId = "tokX" THEN [isValid |-> FALSE, error |-> "Token expired"]
    ELSE [isValid |-> FALSE, error |-> Undefined]

\* ProjectRepository.findByName: the project's id, or Undefined
findByName(value) ==
    IF value = "projA" THEN "idA" ELSE Undefined

\* String.prototype.trim on the header values of the model
Trim(value) ==
    IF value = " projA " THEN "projA" ELSE value

----------------------------------------------------------------------------
(* authMiddleware *)

\* the header string the middleware leaves in req.headers["authorization"]
StripBearer(h) ==
    IF h.present /\ h.bearer THEN [present |-> TRUE, bearer |-> FALSE, id |-> h.id]
    ELSE h

Falsy(h) == ~h.present \/ (~h.bearer /\ h.id = "")

\* one pass of the middleware over a request with Authorization header h
authMiddleware(h) ==
    IF Falsy(h)
    THEN [next |-> FALSE, status |-> 401,
          error |-> "Authentication required. Please provide a valid token.",
          header |-> StripBearer(h)]
    ELSE LET validation == validateToken(h.id)
         IN IF ~validation.isValid
            THEN [next |-> FALSE, status |-> 401,
                  error |-> IF validation.error # Undefined THEN validation.error
                            ELSE "Invalid token. Authentication failed.",
                  header |-> StripBearer(h)]
            ELSE [next |-> TRUE, status |-> 0, error |-> "", header |-> StripBearer(h)]

\* app.use("/mcp", authMiddleware) covers every path under /mcp;
\* app.use("/mcp/sse", authMiddleware) runs it a second time on GET /mcp/sse
Routes == {"/mcp", "/mcp/aggregator", "/mcp/sse", "/mcp/messages"}

\* the middleware mounted as if app.use matched the exact path only
authGateExactPath(route, h) ==
    IF route \in {"/mcp", "/mcp/sse"}
    THEN authMiddleware(h)
    ELSE [next |-> TRUE, status |-> 0, error |-> "", header |-> StripBearer(h)]

authGate(route, h) ==
    LET first == authMiddleware(h)
    IN IF ~first.next THEN first
       ELSE IF route = "/mcp/sse" THEN authMiddleware(first.header)
       ELSE first

----------------------------------------------------------------------------
(* resolveProjectFilter *)

\* an unknown project name taken as "no filter" instead of an error
resolveProjectFilterLenient(headerValue, skipValidation) ==
    IF headerValue = Undefined
    THEN [threw |-> FALSE, projectId |-> Null, provided |-> FALSE, message |-> ""]
    ELSE LET value == Trim(headerValue)
         IN IF value = "" \/ value = UNASSIGNED_PROJECT_ID
            THEN [threw |-> FALSE, projectId |-> Null, provided |-> TRUE, message |-> ""]
            ELSE IF skipValidation
            THEN [threw |-> FALSE, projectId |-> value, provided |-> TRUE, message |-> ""]
            ELSE [threw |-> FALSE,
                  projectId |-> IF findByName(value) # Undefined THEN findByName(value)
                                ELSE Null,
                  provided |-> TRUE, message |-> ""]

\* a resolver that validates the name whatever skipValidation says
resolveProjectFilterAlwaysValidates(headerValue, skipValidation) ==
    IF headerValue = Undefined
    THEN [threw |-> FALSE, projectId |-> Null, provided |-> FALSE, message |-> ""]
    ELSE LET value == Trim(headerValue)
         IN IF value = "" \/ value = UNASSIGNED_PROJECT_ID
            THEN [threw |-> FALSE, projectId |-> Null, provided |-> TRUE, message |-> ""]
            ELSE IF findByName(value) # Undefined
            THEN [threw |-> FALSE, projectId |-> findByName(value), provided |-> TRUE,
                  message |-> ""]
            ELSE [threw |-> TRUE, projectId |-> Null, provided |-> TRUE,
                  message |-> "Project " \o value \o " not found"]

resolveProjectFilter(headerValue, skipValidation) ==
    IF headerValue = Undefined
    THEN [threw |-> FALSE, projectId |-> Null, provided |-> FALSE, message |-> ""]
    ELSE LET value == Trim(headerValue)
         IN IF value = ""
            THEN [threw |-> FALSE, projectId |-> Null, provided |-> TRUE, message |-> ""]
            ELSE IF value = UNASSIGNED_PROJECT_ID
            THEN [threw |-> FALSE, projectId |-> Null, provided |-> TRUE, message |-> ""]
            ELSE IF skipValidation
            THEN [threw |-> FALSE, projectId |-> value, provided |-> TRUE, message |-> ""]
            ELSE IF findByName(value) # Undefined
            THEN [threw |-> FALSE, projectId |-> findByName(value), provided |-> TRUE,
                  message |-> ""]
            ELSE [threw |-> TRUE, projectId |-> Null, provided |-> TRUE,
                  message |-> "Project " \o value \o " not found"]

----------------------------------------------------------------------------
(* attachRequestMetadata *)

\* metadata attached only where the caller sent none
attachRequestMetadataKeepsCaller(payload, tokenValue, projectId) ==
    IF payload.meta.has THEN payload
    ELSE IF payload.params \in {"object", "undefined"}
    THEN [params |-> "object",
          meta |-> [has |-> TRUE, token |-> tokenValue, projectId |-> projectId]]
    ELSE payload

\* params._meta = {...(params._meta || {}), token, projectId} when params is
\* an object; params = {_meta: {token, projectId}} when it is undefined
attachRequestMetadata(payload, tokenValue, projectId) ==
    IF payload.params = "object"
    THEN [params |-> "object",
          meta |-> [has |-> TRUE, token |-> tokenValue, projectId |-> projectId]]
    ELSE IF payload.params = "undefined"
    THEN [params |-> "object",
          meta |-> [has |-> TRUE, token |-> tokenValue, projectId |-> projectId]]
    ELSE payload

----------------------------------------------------------------------------
(* The session table: two Maps keyed by sessionId *)

EmptyMap == [k \in {} |-> 0]

MapSet(m, k, v) == [x \in (DOMAIN m) \cup {k} |-> IF x = k THEN v ELSE m[x]]

MapDelete(m, k) == [x \in (DOMAIN m) \ {k} |-> m[x]]

MapHas(m, k) == k \in DOMAIN m

----------------------------------------------------------------------------
(* What the model records of the handler that ran last *)

\* a request answered by the gateway itself: nothing was forwarded
Answered(route, h, p, body, sid, status, message) ==
    [kind |-> "request", route |-> route, auth |-> h, proj |-> p, body |-> body,
     sid |-> sid, status |-> status, message |-> message, fwd |-> "none",
     channel |-> 0, projectId |-> Null, fwdBody |-> NoBody, wasRemote |-> remote,
     outcome |-> "none", responses |-> <<status>>]

\* a request handed to a transport: fwd names the transport handler called,
\* channel the SSE transport (0: none), projectId the partition the handler
\* resolved for the call, fwdBody the body it passed along
Forwarded(route, h, p, body, sid, status, message, fwd, channel, projectId, fwdBody) ==
    [kind |-> "request", route |-> route, auth |-> h, proj |-> p, body |-> body,
     sid |-> sid, status |-> status, message |-> message, fwd |-> fwd,
     channel |-> channel, projectId |-> projectId, fwdBody |-> fwdBody,
     wasRemote |-> remote, outcome |-> "none", responses |-> <<>>]

Event(kind, sid) ==
    [kind |-> kind, route |-> "", auth |-> NoAuth, proj |-> Undefined, body |-> NoBody,
     sid |-> sid, status |-> 0, message |-> "", fwd |-> "none",
     channel |-> 0, projectId |-> Null, fwdBody |-> NoBody, wasRemote |-> remote,
     outcome |-> "none", responses |-> <<>>]

Rejected(route, h, gate) ==
    Answered(route, h, Undefined, NoBody, 0, gate.status, gate.error)

\* how a call to a transport handler (handleRequest, handlePostMessage) ends:
\* it answers, it throws before any response was started, or it throws after
HandlerOutcomes == {"ok", "throwEarly", "throwLate"}

\* the catch block of a route: the 500 envelope only if nothing was sent yet
StatusAfter(outcome, answered) ==
    IF outcome = "throwEarly" THEN 500 ELSE answered

MessageAfter(outcome) ==
    IF outcome = "throwEarly" THEN "Internal server error" ELSE ""

\* a catch block that writes the 500 envelope whatever was sent before
internalErrorAlways(headersSent) == <<500>>

\* if (!res.headersSent) res.status(500)...: the responses the catch block
\* of a route writes
internalError(headersSent) == IF headersSent THEN <<>> ELSE <<500>>

\* the responses written for a request handed to a transport handler: the
\* transport's own, unless it threw before it started one, then the catch
\* block's if it threw
handlerResponses(outcome, answered) ==
    LET sent == IF outcome = "throwEarly" THEN <<>> ELSE <<answered>>
    IN IF outcome = "ok" THEN sent ELSE sent \o internalError(sent # <<>>)

\* the record of a request handed to a transport handler that ended with outcome
Settled(record, outcome, answered) ==
    [record EXCEPT !.outcome = outcome,
                   !.responses = handlerResponses(outcome, answered)]

sessionVarsUnchanged ==
    UNCHANGED <<nextSid, sseSessions, sseSessionProjects, stage, conn, frames>>

----------------------------------------------------------------------------
(* POST /mcp *)

McpPost(h, p, body, initOk, outcome) ==
    LET gate == authGate("/mcp", h)
    IN /\ last' =
            IF ~gate.next THEN Rejected("/mcp", h, gate)
            ELSE IF ~initOk
            THEN Answered("/mcp", h, p, body, 0, 500, "Internal server error")
            ELSE Settled(Forwarded("/mcp", h, p, body, 0, StatusAfter(outcome, 200),
                                   MessageAfter(outcome), "entry", 0, Null, body),
                         outcome, 200)
       /\ sessionVarsUnchanged
       /\ UNCHANGED remote
       /\ UNCHANGED otherThanGateway

(* POST /mcp/aggregator *)

AggregatorPost(h, p, body, outcome) ==
    LET gate == authGate("/mcp/aggregator", h)
        resolution == resolveProjectFilter(p, remote)
        token == gate.header.id
    IN /\ last' =
            IF ~gate.next THEN Rejected("/mcp/aggregator", h, gate)
            ELSE IF resolution.threw
            THEN Answered("/mcp/aggregator", h, p, body, 0, 400, resolution.message)
            ELSE Settled(Forwarded("/mcp/aggregator", h, p, body, 0,
                                   StatusAfter(outcome, 200), MessageAfter(outcome),
                                   "aggregator", 0, resolution.projectId,
                                   attachRequestMetadata(body, token,
                                                         resolution.projectId)),
                         outcome, 200)
       /\ sessionVarsUnchanged
       /\ UNCHANGED remote
       /\ UNCHANGED otherThanGateway

----------------------------------------------------------------------------
(* GET /mcp/sse *)

\* the handler up to its await of connect(transport)
SseGet(h, p) ==
    LET gate == authGate("/mcp/sse", h)
        resolution == resolveProjectFilter(p, remote)
        sessionId == nextSid + 1
    IN /\ UNCHANGED remote
       /\ UNCHANGED otherThanGateway
       /\ \/ /\ ~gate.next
             /\ last' = Rejected("/mcp/sse", h, gate)
             /\ sessionVarsUnchanged
          \/ /\ gate.next
             /\ resolution.threw
             \* res.status(400).send(message); transport.close(); return
             /\ last' = Answered("/mcp/sse", h, p, NoBody, 0, 400, resolution.message)
             /\ sessionVarsUnchanged
          \/ /\ gate.next
             /\ ~resolution.threw
             /\ nextSid < MaxSessions
             /\ nextSid' = sessionId
             /\ sseSessions' = MapSet(sseSessions, sessionId, sessionId)
             /\ sseSessionProjects' = MapSet(sseSessionProjects, sessionId,
                                             resolution.projectId)
             /\ stage' = [stage EXCEPT ![sessionId] = "connecting"]
             /\ conn' = [conn EXCEPT ![sessionId] = "open"]
             /\ last' = Forwarded("/mcp/sse", h, p, NoBody, sessionId, 0, "", "connect",
                                  sessionId, resolution.projectId, NoBody)
             /\ UNCHANGED frames

\* aggregatorServer.connect(transport) settles and the handler resumes.
\* connect starts the event stream on the transport (response head and the
\* transport's endpoint event) and resolves, or it rejects before or after the
\* stream was started (res.headersSent). Then: res.write of {sessionId}, or
\* the catch block.
\* the {sessionId} frame written before the transport is connected
SseConnectedWriteFirst(sid, outcome) ==
    LET announced == IF conn[sid] = "open" THEN Append(frames[sid], "sessionId")
                     ELSE frames[sid]
        started == IF outcome # "throwEarly" /\ conn[sid] = "open"
                   THEN Append(announced, "endpoint")
                   ELSE announced
    IN /\ stage[sid] = "connecting"
       /\ stage' = [stage EXCEPT ![sid] = IF outcome = "ok" THEN "established"
                                          ELSE "errored"]
       /\ frames' = [frames EXCEPT ![sid] = started]
       /\ UNCHANGED conn
       /\ last' = Event("connected", sid)
       /\ UNCHANGED <<remote, nextSid, sseSessions, sseSessionProjects>>
       /\ UNCHANGED otherThanGateway

SseConnected(sid, outcome) ==
    LET started == IF outcome # "throwEarly" /\ conn[sid] = "open"
                   THEN Append(frames[sid], "endpoint")
                   ELSE frames[sid]
    IN /\ stage[sid] = "connecting"
       /\ IF outcome = "ok"
          THEN /\ stage' = [stage EXCEPT ![sid] = "established"]
               /\ frames' = [frames EXCEPT ![sid] =
                               IF conn[sid] = "open" THEN Append(started, "sessionId")
                               ELSE started]
               /\ UNCHANGED conn
          ELSE /\ stage' = [stage EXCEPT ![sid] = "errored"]
               /\ frames' = [frames EXCEPT ![sid] = started]
               /\ IF internalError(started # <<>>) # <<>> /\ conn[sid] = "open"
                  THEN \* !res.headersSent: res.status(500).send(...) ends the response
                       conn' = [conn EXCEPT ![sid] = "ended"]
                  ELSE UNCHANGED conn
       /\ last' = Event("connected", sid)
       /\ UNCHANGED <<remote, nextSid, sseSessions, sseSessionProjects>>
       /\ UNCHANGED otherThanGateway

\* res.on("close"): the client disconnected, the server shut down, or the
\* response the handler ended has been torn down
\* a close callback that forgets the transport map
ResCloseProjectsOnly(sid) ==
    /\ conn[sid] \in {"open", "ended"}
    /\ conn' = [conn EXCEPT ![sid] = "closed"]
    /\ sseSessionProjects' = MapDelete(sseSessionProjects, sid)
    /\ last' = Event("close", sid)
    /\ UNCHANGED <<remote, nextSid, stage, frames, sseSessions>>
    /\ UNCHANGED otherThanGateway

\* a close callback that forgets the partition map
ResCloseTransportOnly(sid) ==
    /\ conn[sid] \in {"open", "ended"}
    /\ conn' = [conn EXCEPT ![sid] = "closed"]
    /\ sseSessions' = MapDelete(sseSessions, sid)
    /\ last' = Event("close", sid)
    /\ UNCHANGED <<remote, nextSid, stage, frames, sseSessionProjects>>
    /\ UNCHANGED otherThanGateway

ResClose(sid) ==
    /\ conn[sid] \in {"open", "ended"}
    /\ conn' = [conn EXCEPT ![sid] = "closed"]
    /\ sseSessions' = MapDelete(sseSessions, sid)
    /\ sseSessionProjects' = MapDelete(sseSessionProjects, sid)
    /\ last' = Event("close", sid)
    /\ UNCHANGED <<remote, nextSid, stage, frames>>
    /\ UNCHANGED otherThanGateway

----------------------------------------------------------------------------
(* POST /mcp/messages *)

\* (req.query.sessionId as string) || (req.headers["mcp-session-id"] as string)
SessionIdOf(q, hs) == IF q # 0 THEN q ELSE hs

\* a lookup that falls back to some live session
sseSessionsGetAny(sessionId) ==
    IF MapHas(sseSessions, sessionId) THEN sseSessions[sessionId]
    ELSE IF DOMAIN sseSessions # {} THEN CHOOSE s \in DOMAIN sseSessions : TRUE
    ELSE 0

\* this.sseSessions.get(sessionId): the transport, or 0 for undefined
sseSessionsGet(sessionId) ==
    IF MapHas(sseSessions, sessionId) THEN sseSessions[sessionId] ELSE 0

\* a fallback that drops the session's captured partition
messageProjectFilterNoFallback(resolution, sessionId) ==
    resolution.projectId

\* resolution.provided ? resolution.projectId
\*                     : this.sseSessionProjects.get(sessionId) ?? null
messageProjectFilter(resolution, sessionId) ==
    IF resolution.provided THEN resolution.projectId
    ELSE IF MapHas(sseSessionProjects, sessionId)
         THEN sseSessionProjects[sessionId]
         ELSE Null

\* a message route that resolves under the workspace rule of the other routes
messagesSkipValidationWhenRemote == remote

\* this.resolveProjectFilter(req): the message route passes no options, so
\* skipValidation is never set
messagesSkipValidation == FALSE

\* what the handler does with the request
MessagesHandled(h, q, hs, p, body, outcome) ==
    LET gate == authGate("/mcp/messages", h)
        sessionId == SessionIdOf(q, hs)
        transport == sseSessionsGet(sessionId)
        resolution == resolveProjectFilter(p, messagesSkipValidation)
        projectFilter == messageProjectFilter(resolution, sessionId)
        token == gate.header.id
    IN IF ~gate.next THEN Rejected("/mcp/messages", h, gate)
       ELSE IF sessionId = 0
       THEN Answered("/mcp/messages", h, p, body, sessionId, 400, "Session ID is required")
       ELSE IF transport = 0
       THEN Answered("/mcp/messages", h, p, body, sessionId, 404,
                     "Session not found or expired")
       ELSE IF resolution.threw
       THEN Answered("/mcp/messages", h, p, body, sessionId, 400, resolution.message)
       ELSE Settled(Forwarded("/mcp/messages", h, p, body, sessionId,
                              StatusAfter(outcome, 202), MessageAfter(outcome),
                              "channel", transport, projectFilter,
                              attachRequestMetadata(body, token, projectFilter)),
                    outcome, 202)

\* a handler that writes the per-request override back into the session
MessagesPostPersisting(h, q, hs, p, body, outcome) ==
    LET handled == MessagesHandled(h, q, hs, p, body, outcome)
    IN /\ last' = handled
       /\ sseSessionProjects' =
            IF handled.fwd = "channel" /\ p # Undefined
            THEN MapSet(sseSessionProjects, handled.sid, handled.projectId)
            ELSE sseSessionProjects
       /\ UNCHANGED <<remote, nextSid, sseSessions, stage, conn, frames>>
       /\ UNCHANGED otherThanGateway

MessagesPost(h, q, hs, p, body, outcome) ==
    /\ last' = MessagesHandled(h, q, hs, p, body, outcome)
    /\ sessionVarsUnchanged
    /\ UNCHANGED remote
    /\ UNCHANGED otherThanGateway

----------------------------------------------------------------------------
(* The workspace is switched between local and remote *)

SwitchWorkspace ==
    /\ remote' = ~remote
    /\ last' = Event("switch", 0)
    /\ sessionVarsUnchanged
    /\ UNCHANGED otherThanGateway

----------------------------------------------------------------------------
(* EntryMCPService: the backend registry it reads *)

ServerName == "filesystem"

\* names a caller can ask for: the server of the registry and one it never has
McpNames == {ServerName, "nonexistent"}

Tools == {"read_file", "write_file"}

ArgValues == {"argsX", "argsY"}

Statuses == {"running", "starting", "stopping", "stopped", "error"}

\* toolPermissions[name]: no entry, true or false
Permissions == {"unset", "allow", "deny"}

NoServer ==
    [exists |-> FALSE, status |-> "stopped", disabled |-> FALSE,
     toolPermissions |-> [t \in Tools |-> "unset"]]

\* deps.getServers().find((s) => s.name === mcpName)
findServer(mcpName) ==
    IF mcpName = ServerName /\ registry.exists THEN registry ELSE NoServer

----------------------------------------------------------------------------
(* validateCallParams *)

\* the disabled check made before the status check
validateServerDisabledFirst(server) ==
    IF ~server.exists THEN "SERVER_NOT_FOUND"
    ELSE IF server.disabled THEN "SERVER_DISABLED"
    ELSE IF server.status # "running" THEN "SERVER_NOT_RUNNING"
    ELSE ""

\* a status check that lets a starting server through
validateServerStartingPasses(server) ==
    IF ~server.exists THEN "SERVER_NOT_FOUND"
    ELSE IF server.status \notin {"running", "starting"} THEN "SERVER_NOT_RUNNING"
    ELSE IF server.disabled THEN "SERVER_DISABLED"
    ELSE ""

\* the checks made before the tool list is fetched: "" when they pass
validateServer(server) ==
    IF ~server.exists THEN "SERVER_NOT_FOUND"
    ELSE IF server.status # "running" THEN "SERVER_NOT_RUNNING"
    ELSE IF server.disabled THEN "SERVER_DISABLED"
    ELSE ""

\* the checks after the fetch with the permission check left out
validateToolPermissionIgnored(fetchOk, tools, toolName, permission) ==
    IF ~fetchOk THEN "TOOLS_FETCH_FAILED"
    ELSE IF toolName \notin tools THEN "TOOL_NOT_FOUND"
    ELSE ""

\* the checks made on the fetched tool list: "" when they pass
validateTool(fetchOk, tools, toolName, permission) ==
    IF ~fetchOk THEN "TOOLS_FETCH_FAILED"
    ELSE IF toolName \notin tools THEN "TOOL_NOT_FOUND"
    ELSE IF permission = "deny" THEN "TOOL_DISABLED"
    ELSE ""

\* a tool list obtained once and kept
getServerToolsKept == Tools

\* deps.getServerTools(server.id), when it resolves: the tools the backend
\* has at that moment
getServerTools == liveTools

\* what validateCallParams saw of the server it found
Seen(server) ==
    [exists |-> server.exists, status |-> server.status, disabled |-> server.disabled]

\* the code the server and permission checks give on what the registry holds
\* of the server now: "" when they pass (kept for the properties)
Stale(server, toolName) ==
    IF validateServer(server) # "" THEN validateServer(server)
    ELSE IF server.toolPermissions[toolName] = "deny" THEN "TOOL_DISABLED"
    ELSE ""

IdleCall ==
    [pc |-> "idle", op |-> "", mcpName |-> "", toolName |-> "", args |-> "",
     seen |-> Seen(NoServer), seenPermission |-> "unset",
     invokedOn |-> "",
     fetchOk |-> FALSE, listed |-> FALSE, permission |-> "unset",
     fetches |-> 0, invoked |-> <<>>, backend |-> "", thrown |-> "", isError |-> FALSE,
     errorCode |-> "", text |-> <<>>, servers |-> <<>>, message |-> <<>>]

----------------------------------------------------------------------------
(* EntryMCPServer: the request handlers of the facade *)

\* request.params.arguments of a tools/call request
NoArguments == [mcpName |-> Undefined, toolName |-> Undefined, arguments |-> Undefined]

NoResponse == [isError |-> FALSE, errorCode |-> "", text |-> <<>>]

IdleFacade ==
    [pc |-> "idle", request |-> "", name |-> "", args |-> NoArguments,
     tools |-> <<>>, descriptors |-> <<>>, logs |-> <<>>, response |-> NoResponse,
     threw |-> FALSE, served |-> ""]

\* the tool the request before this one reached on the backend, "" if none
\* (kept for the properties: the handler has no such field)
servedBefore(f, c) ==
    IF f.request = "tools/call" /\ f.name = "call_mcp_tool" /\ f.pc = "done"
       /\ c.op = "call" /\ c.pc = "done" /\ c.invoked # <<>>
    THEN c.toolName ELSE ""

\* the record handed to getLogService().recordMcpRequestLog
logRecord(requestType, params, result, errorMessage) ==
    [timestamp |-> "new Date().toISOString()", requestType |-> requestType,
     params |-> params, result |-> result, errorMessage |-> errorMessage,
     duration |-> "Date.now() - startTime", clientId |-> "entry-mcp"]

\* formatListResult: the message if there is one, a fixed text for an empty
\* list, else the servers with their tools written out
formatListResult(result) ==
    IF result.message # <<>> THEN result.message
    ELSE IF result.servers = <<>> THEN <<"no MCP server found">>
    ELSE <<"# ", result.servers[1].name, result.servers[1].status,
           result.servers[1].toolCount, result.servers[1].tools>>

\* args.arguments || {}
toolArguments(arguments) == IF arguments = Undefined THEN "{}" ELSE arguments

\* how recordMcpRequestLog answers during one run of the handler: it records,
\* it throws on its first call and records on the next, or it throws each time
LoggerModes == {"ok", "throwsOnce", "throws"}

\* the message of the error recordMcpRequestLog throws
LogErrorMessage == "log service failed"

\* the record the handler hands to the logger after the service call c
servedRecord(f, c) ==
    IF f.name = "list_mcp_tools"
    THEN logRecord(<<"EntryMCP:", "list_mcp_tools">>, f.args, "success", Undefined)
    ELSE logRecord(<<"EntryMCP:", "call_mcp_tool", "(", f.args.mcpName, "/",
                     f.args.toolName, ")">>,
                   [mcpName |-> f.args.mcpName, toolName |-> f.args.toolName,
                    arguments |-> toolArguments(f.args.arguments)],
                   IF c.isError THEN "error" ELSE "success", Undefined)

\* the result the handler returns after the service call c
servedResponse(f, c) ==
    IF f.name = "list_mcp_tools"
    THEN [isError |-> FALSE, errorCode |-> "", text |-> formatListResult(c)]
    ELSE [isError |-> c.isError, errorCode |-> c.errorCode, text |-> c.text]

\* the CallTool handler after its await of the service: once the service
\* call c is done it hands the log record to the logger and returns the
\* result. A throw of the logger lands in the catch block, which hands the
\* logger an error record and returns an error result; a throw there leaves
\* the handler with an exception.
facadeResumed(f, c) ==
    IF f.pc # "awaiting" \/ c.pc # "done" THEN f
    ELSE IF logger = "ok"
    THEN [f EXCEPT !.pc = "done",
                   !.logs = Append(@, servedRecord(f, c)),
                   !.response = servedResponse(f, c)]
    ELSE IF logger = "throwsOnce"
    THEN [f EXCEPT !.pc = "done",
                   !.logs = Append(@, logRecord(<<"EntryMCP:", f.name>>, f.args, "error",
                                                LogErrorMessage)),
                   !.response = [isError |-> TRUE, errorCode |-> "",
                                 text |-> <<"Error: ", LogErrorMessage>>]]
    ELSE [f EXCEPT !.pc = "done", !.threw = TRUE]

----------------------------------------------------------------------------
(* callMCPTool *)

\* validation.error: the text that goes with each error code
validationError(code, mcpName, toolName) ==
    IF code = "SERVER_NOT_FOUND" THEN <<"MCP server not found: ", mcpName>>
    ELSE IF code = "SERVER_NOT_RUNNING" THEN <<"MCP server is not running: ", mcpName>>
    ELSE IF code = "SERVER_DISABLED" THEN <<"MCP server is disabled: ", mcpName>>
    ELSE IF code = "TOOL_NOT_FOUND"
    THEN <<"Tool not found: ", toolName, " on server ", mcpName>>
    ELSE IF code = "TOOL_DISABLED" THEN <<"Tool is disabled: ", toolName>>
    ELSE <<"Failed to get tools from server: ", mcpName>>

\* the arguments callMCPTool hands to deps.callTool, the tool arguments dropped
callToolArgumentsDropped(mcpName, toolName, args) ==
    [mcpName |-> mcpName, toolName |-> toolName, args |-> "{}"]

\* the arguments callMCPTool hands to deps.callTool
callToolArguments(mcpName, toolName, args) ==
    [mcpName |-> mcpName, toolName |-> toolName, args |-> args]

\* messages of the errors deps.callTool rejects with: the registry has no
\* client for the server, or the request timed out
ThrownMessages == {"Server not connected: filesystem", "Request timed out"}

\* a catch block that keeps the error code but not the message
callFailedWithoutMessage(message) ==
    [isError |-> TRUE, errorCode |-> "CALL_FAILED", text |-> <<"Error: ">>]

\* the catch block of callMCPTool
callFailed(message) ==
    [isError |-> TRUE, errorCode |-> "CALL_FAILED", text |-> <<"Error: ", message>>]

\* the result callMCPTool builds from what deps.callTool returned
callReturned(isError) ==
    [isError |-> isError, errorCode |-> "", text |-> <<"backend content">>]

\* callMCPTool up to the await of getServerTools in validateCallParams: the
\* call as it stands there
callStarted(mcpName, toolName, args) ==
    LET server == findServer(mcpName)
        code == validateServer(server)
        begun == [IdleCall EXCEPT !.op = "call", !.mcpName = mcpName,
                                  !.toolName = toolName, !.args = args,
                                  !.seen = Seen(server)]
    IN IF code # ""
       THEN [begun EXCEPT !.pc = "done", !.isError = TRUE, !.errorCode = code,
                          !.text = validationError(code, mcpName, toolName)]
       ELSE [begun EXCEPT !.pc = "fetching", !.fetches = 1,
                          !.seenPermission = server.toolPermissions[toolName]]

\* callMCPTool called on the service directly
CallStart(mcpName, toolName, args) ==
    /\ call.pc \in {"idle", "done"}
    /\ call' = callStarted(mcpName, toolName, args)
    /\ UNCHANGED <<registry, liveTools, facade>>
    /\ UNCHANGED logger
    /\ UNCHANGED otherThanEntry

\* getServerTools settles: validateCallParams finishes and, when it passed,
\* callMCPTool invokes deps.callTool. server.toolPermissions is read from the
\* server object found before the await: the registry's current entry if it
\* updates its objects in place, the one seen at the start if it replaces them.
FetchSettled(fetchOk, inPlace) ==
    LET permission ==
            IF inPlace /\ registry.exists
            THEN registry.toolPermissions[call.toolName]
            ELSE call.seenPermission
        tools == getServerTools
        code == validateTool(fetchOk, tools, call.toolName, permission)
        fetchedCall == [call EXCEPT !.fetchOk = fetchOk,
                                    !.listed = fetchOk /\ call.toolName \in tools,
                                    !.permission = IF fetchOk /\ call.toolName \in tools
                                                   THEN permission ELSE "unset"]
    IN /\ call.pc = "fetching"
       /\ call.op = "call"
       /\ call' = IF code # ""
                  THEN [fetchedCall EXCEPT
                           !.pc = "done", !.isError = TRUE, !.errorCode = code,
                           !.text = validationError(code, call.mcpName, call.toolName)]
                  ELSE [fetchedCall EXCEPT
                           !.pc = "calling",
                           !.invoked = Append(@, callToolArguments(call.mcpName,
                                                                   call.toolName,
                                                                   call.args)),
                           !.invokedOn = Stale(registry, call.toolName)]
       /\ facade' = facadeResumed(facade, call')
       /\ UNCHANGED <<registry, liveTools>>
       /\ UNCHANGED logger
       /\ UNCHANGED otherThanEntry

\* deps.callTool settles: a result (with or without its isError flag) or a throw
CallOutcomes == {"result", "errorResult", "throw"}

CallSettled(outcome, message) ==
    LET result == IF outcome = "throw" THEN callFailed(message)
                  ELSE callReturned(outcome = "errorResult")
    IN /\ call.pc = "calling"
       /\ call' = [call EXCEPT !.pc = "done",
                               !.backend = outcome,
                               !.thrown = IF outcome = "throw" THEN message ELSE "",
                               !.isError = result.isError,
                               !.errorCode = result.errorCode,
                               !.text = result.text]
       /\ facade' = facadeResumed(facade, call')
       /\ UNCHANGED <<registry, liveTools>>
       /\ UNCHANGED logger
       /\ UNCHANGED otherThanEntry

----------------------------------------------------------------------------
(* listMCPTools *)

\* values of params.mcpName: a name, the empty string, or none
ListNames == McpNames \cup {"", Undefined}

\* !params.mcpName
NameMissing(mcpName) == mcpName = Undefined \/ mcpName = ""

\* the guidance message (its text points the caller to the mcp-router skill)
listHint == <<"see the mcp-router skill">>

\* every running server listed when no name is given
listWithoutNameListsAll ==
    [servers |-> IF registry.exists /\ registry.status = "running" /\ ~registry.disabled
                 THEN << [name |-> ServerName, status |-> registry.status,
                          toolCount |-> Cardinality(liveTools), tools |-> liveTools] >>
                 ELSE <<>>,
     message |-> <<>>]

\* the result for a request without mcpName
listWithoutName == [servers |-> <<>>, message |-> listHint]

\* a lookup by name and status that lets disabled servers through
findRunningServerOrDisabled(mcpName) ==
    LET server == findServer(mcpName)
    IN IF server.exists /\ server.status = "running" THEN server ELSE NoServer

\* servers.find(s => s.name === mcpName && s.status === "running" && !s.disabled)
findRunningServer(mcpName) ==
    LET server == findServer(mcpName)
    IN IF server.exists /\ server.status = "running" /\ ~server.disabled
       THEN server ELSE NoServer

\* the messages of the results without servers
listNotFound(mcpName) == <<"MCP server \"", mcpName, "\" not found or not running">>

listFetchFailed(mcpName) == <<"fetching the tool list of \"", mcpName, "\" failed">>

\* listMCPTools up to its await of getServerTools: the call as it stands there
listStarted(mcpName) ==
    LET server == findRunningServer(mcpName)
        begun == [IdleCall EXCEPT !.op = "list", !.mcpName = mcpName,
                                  !.seen = Seen(server)]
    IN IF NameMissing(mcpName)
       THEN [begun EXCEPT !.pc = "done", !.seen = Seen(NoServer),
                          !.servers = listWithoutName.servers,
                          !.message = listWithoutName.message]
       ELSE IF ~server.exists
       THEN [begun EXCEPT !.pc = "done", !.message = listNotFound(mcpName)]
       ELSE [begun EXCEPT !.pc = "fetching", !.fetches = 1]

\* listMCPTools called on the service directly
ListStart(mcpName) ==
    /\ call.pc \in {"idle", "done"}
    /\ call' = listStarted(mcpName)
    /\ UNCHANGED <<registry, liveTools, facade>>
    /\ UNCHANGED logger
    /\ UNCHANGED otherThanEntry

\* getServerTools settles and listMCPTools returns. server.status is read
\* from the server object found before the await (see FetchSettled).
ListFetchSettled(fetchOk, inPlace) ==
    LET status == IF inPlace /\ registry.exists THEN registry.status
                  ELSE call.seen.status
        tools == getServerTools
    IN /\ call.pc = "fetching"
       /\ call.op = "list"
       /\ call' = IF fetchOk
                  THEN [call EXCEPT
                           !.pc = "done", !.fetchOk = TRUE,
                           !.servers = << [name |-> call.mcpName, status |-> status,
                                           toolCount |-> Cardinality(tools),
                                           tools |-> tools] >>]
                  ELSE [call EXCEPT !.pc = "done",
                                    !.message = listFetchFailed(call.mcpName)]
       /\ facade' = facadeResumed(facade, call')
       /\ UNCHANGED <<registry, liveTools>>
       /\ UNCHANGED logger
       /\ UNCHANGED otherThanEntry

----------------------------------------------------------------------------
(* EntryMCPServer: requests *)

\* the backend tools listed next to the two operations
listToolsResultWithBackendTools ==
    <<"list_mcp_tools", "call_mcp_tool">>
        \o (IF "read_file" \in liveTools THEN <<"read_file">> ELSE <<>>)
        \o (IF "write_file" \in liveTools THEN <<"write_file">> ELSE <<>>)

\* the names of the descriptors the ListTools handler returns
listToolsResult == <<"list_mcp_tools", "call_mcp_tool">>

\* EntryMCPService.getListMCPToolsDefinition: name and inputSchema
getListMCPToolsDefinition ==
    [name |-> "list_mcp_tools",
     properties |-> {[name |-> "mcpName", type |-> "string"]},
     required |-> {"mcpName"}]

\* EntryMCPService.getCallMCPToolDefinition: name and inputSchema
getCallMCPToolDefinition ==
    [name |-> "call_mcp_tool",
     properties |-> {[name |-> "mcpName", type |-> "string"],
                     [name |-> "toolName", type |-> "string"],
                     [name |-> "arguments", type |-> "object"]},
     required |-> {"mcpName", "toolName"}]

\* a tools/list request
FacadeListTools ==
    /\ facade.pc \in {"idle", "done"}
    /\ facade' = [IdleFacade EXCEPT !.pc = "done", !.request = "tools/list",
                                    !.tools = listToolsResult,
                                    !.descriptors = <<getListMCPToolsDefinition,
                                                      getCallMCPToolDefinition>>]
    /\ UNCHANGED <<registry, liveTools, call>>
    /\ UNCHANGED logger
    /\ UNCHANGED otherThanEntry

\* request.params.name of the tools/call requests
FacadeToolNames == {"list_mcp_tools", "call_mcp_tool", "delete_server"}

FacadeArguments ==
    [mcpName : {ServerName, "nonexistent", Undefined},
     toolName : {"read_file", Undefined},
     arguments : {Undefined, "argsX"}]

\* a tools/call request, up to the handler's await of the service (or to its
\* return, when the service returns without awaiting or is not called)
FacadeCallTool(name, args) ==
    LET begun == [IdleFacade EXCEPT !.pc = "awaiting", !.request = "tools/call",
                                    !.name = name, !.args = args,
                                    !.served = servedBefore(facade, call)]
    IN /\ facade.pc \in {"idle", "done"}
       /\ call.pc \in {"idle", "done"}
       /\ \/ /\ name = "list_mcp_tools"
             /\ call' = listStarted(args.mcpName)
             /\ facade' = facadeResumed(begun, call')
          \/ /\ name = "call_mcp_tool"
             /\ NameMissing(args.mcpName) \/ NameMissing(args.toolName)
             /\ facade' = [begun EXCEPT
                              !.pc = "done",
                              !.response = [isError |-> TRUE, errorCode |-> "",
                                    text |-> <<"Error: mcpName and toolName are required">>]]
             /\ UNCHANGED call
          \/ /\ name = "call_mcp_tool"
             /\ ~(NameMissing(args.mcpName) \/ NameMissing(args.toolName))
             /\ call' = callStarted(args.mcpName, args.toolName,
                                    toolArguments(args.arguments))
             /\ facade' = facadeResumed(begun, call')
          \/ /\ name \notin {"list_mcp_tools", "call_mcp_tool"}
             /\ facade' = [begun EXCEPT
                              !.pc = "done",
                              !.response = [isError |-> TRUE, errorCode |-> "",
                                            text |-> <<"Unknown tool: ", name>>]]
             /\ UNCHANGED call
       /\ UNCHANGED <<registry, liveTools>>
       /\ UNCHANGED logger
       /\ UNCHANGED otherThanEntry

\* the logging collaborator starts or stops failing
SetLogger(mode) ==
    /\ logger' = mode
    /\ UNCHANGED <<registry, liveTools, call, facade>>
    /\ UNCHANGED otherThanEntry

----------------------------------------------------------------------------
(* The server manager changes the registry while calls are served *)

SetStatus(status) ==
    /\ registry.exists
    /\ registry' = [registry EXCEPT !.status = status]
    /\ UNCHANGED <<liveTools, call, facade>>
    /\ UNCHANGED logger
    /\ UNCHANGED otherThanEntry

SetDisabled(disabled) ==
    /\ registry.exists
    /\ registry' = [registry EXCEPT !.disabled = disabled]
    /\ UNCHANGED <<liveTools, call, facade>>
    /\ UNCHANGED logger
    /\ UNCHANGED otherThanEntry

SetToolPermission(tool, permission) ==
    /\ registry.exists
    /\ registry' = [registry EXCEPT !.toolPermissions[tool] = permission]
    /\ UNCHANGED <<liveTools, call, facade>>
    /\ UNCHANGED logger
    /\ UNCHANGED otherThanEntry

RemoveServer ==
    /\ registry.exists
    /\ registry' = NoServer
    /\ UNCHANGED <<liveTools, call, facade>>
    /\ UNCHANGED logger
    /\ UNCHANGED otherThanEntry

AddServer ==
    /\ ~registry.exists
    /\ registry' = [NoServer EXCEPT !.exists = TRUE]
    /\ UNCHANGED <<liveTools, call, facade>>
    /\ UNCHANGED logger
    /\ UNCHANGED otherThanEntry

SetLiveTools(tools) ==
    /\ liveTools' = tools
    /\ UNCHANGED <<registry, call, facade>>
    /\ UNCHANGED logger
    /\ UNCHANGED otherThanEntry

EntryInit ==
    /\ registry = NoServer
    /\ liveTools = Tools
    /\ call = IdleCall
    /\ facade = IdleFacade
    /\ logger = "ok"

\* The changes of the registry, over the statuses (ST), tools (TL),
\* permissions (PM) and advertised tool sets (LT) a specification draws from
RegistryStepsOver(ST, TL, PM, LT) ==
    \/ \E status \in ST : SetStatus(status)
    \/ \E disabled \in BOOLEAN : SetDisabled(disabled)
    \/ \E tool \in TL, permission \in PM : SetToolPermission(tool, permission)
    \/ RemoveServer
    \/ AddServer
    \/ \E tools \in LT : SetLiveTools(tools)

RegistrySteps == RegistryStepsOver(Statuses, Tools, Permissions, SUBSET Tools)

CallSteps ==
    \/ \E mcpName \in McpNames, toolName \in Tools, args \in ArgValues :
            CallStart(mcpName, toolName, args)
    \/ \E fetchOk \in BOOLEAN, inPlace \in BOOLEAN : FetchSettled(fetchOk, inPlace)
    \/ \E outcome \in CallOutcomes, message \in ThrownMessages :
            CallSettled(outcome, message)

ListSteps ==
    \/ \E mcpName \in ListNames : ListStart(mcpName)
    \/ \E fetchOk \in BOOLEAN, inPlace \in BOOLEAN : ListFetchSettled(fetchOk, inPlace)

FacadeSteps ==
    \/ FacadeListTools
    \/ \E name \in FacadeToolNames, args \in FacadeArguments : FacadeCallTool(name, args)
    \/ \E fetchOk \in BOOLEAN, inPlace \in BOOLEAN : FetchSettled(fetchOk, inPlace)
    \/ \E outcome \in CallOutcomes, message \in ThrownMessages :
            CallSettled(outcome, message)
    \/ \E fetchOk \in BOOLEAN, inPlace \in BOOLEAN : ListFetchSettled(fetchOk, inPlace)

----------------------------------------------------------------------------
(* SkillsWatcher: auto-sync with debouncing *)

\* the debounce delay and the end of the modelled time, in ticks
DebounceMs == 2

MaxTime == 6

\* setTimeout handles are named by the time they are due; 0 is null
NoTimer == 0

\* debouncedSync that leaves the earlier timeout running
debouncedSyncWithoutClear(w, t) ==
    [w EXCEPT !.pending = @ \cup {t + DebounceMs},
              !.debounceTimer = t + DebounceMs]

\* debouncedSync at time t: clearTimeout of the pending timer, then a new
\* timeout of debounceMs
debouncedSync(w, t) ==
    [w EXCEPT !.pending = (IF w.debounceTimer # NoTimer THEN @ \ {w.debounceTimer}
                           ELSE @) \cup {t + DebounceMs},
              !.debounceTimer = t + DebounceMs]

\* shouldAutoSync
shouldAutoSync == skillsConfig.enabled /\ skillsConfig.autoSync

\* syncNow run at time t by the timer or by a direct call: syncSkills is
\* reached only if a server provider is set
syncNow(by, t) == [by |-> by, at |-> t, synced |-> watcher.provider]

ServerEvents == {"started", "stopped", "added", "removed", "updated"}

\* no timeout is due: the event loop runs expired timers before it takes
\* other events
NoTimerDue == \A d \in watcher.pending : d > now

\* onServerStarted, onServerStopped, onServerAdded, onServerRemoved and
\* onServerUpdated (relevant: one of description, name, disabled changed)
OnServerEvent(kind, relevant) ==
    LET triggers == shouldAutoSync /\ (kind = "updated" => relevant)
    IN /\ NoTimerDue
       /\ now + DebounceMs <= MaxTime
       /\ watcher' = IF triggers THEN debouncedSync(watcher, now) ELSE watcher
       /\ burst' = IF ~triggers THEN burst
                   ELSE IF burst.open
                   THEN [burst EXCEPT !.last = now, !.repeated = TRUE]
                   ELSE [open |-> TRUE, started |-> TRUE, last |-> now,
                         repeated |-> FALSE, runs |-> 0, cancelled |-> FALSE]
       /\ UNCHANGED <<now, skillsConfig, lastRun>>
       /\ UNCHANGED otherThanWatcher

\* the timeout due at d runs its callback: syncNow, then debounceTimer = null
TimerFires(d) ==
    /\ d \in watcher.pending
    /\ d <= now
    /\ lastRun' = syncNow("timer", now)
    /\ watcher' = [watcher EXCEPT !.pending = @ \ {d}, !.debounceTimer = NoTimer]
    /\ burst' = [burst EXCEPT !.open = FALSE, !.runs = @ + 1]
    /\ UNCHANGED <<now, skillsConfig>>
    /\ UNCHANGED otherThanWatcher

\* manualSync, onConfigChanged, initialize: syncNow at once if enabled
SyncCalls == {"manualSync", "onConfigChanged", "initialize"}

SyncCall(kind) ==
    /\ NoTimerDue
    /\ skillsConfig.enabled
    /\ lastRun' = syncNow(kind, now)
    /\ UNCHANGED <<now, watcher, skillsConfig, burst>>
    /\ UNCHANGED otherThanWatcher

\* setServerProvider
SetServerProvider ==
    /\ NoTimerDue
    /\ watcher' = [watcher EXCEPT !.provider = TRUE]
    /\ UNCHANGED <<now, skillsConfig, burst, lastRun>>
    /\ UNCHANGED otherThanWatcher

\* destroy: the pending timeout is cleared and the provider dropped
Destroy ==
    /\ NoTimerDue
    /\ watcher' = [watcher EXCEPT
                      !.pending = IF watcher.debounceTimer # NoTimer
                                  THEN @ \ {watcher.debounceTimer} ELSE @,
                      !.debounceTimer = NoTimer,
                      !.provider = FALSE]
    /\ burst' = IF burst.open THEN [burst EXCEPT !.open = FALSE, !.cancelled = TRUE]
                ELSE burst
    /\ UNCHANGED <<now, skillsConfig, lastRun>>
    /\ UNCHANGED otherThanWatcher

\* the skills configuration is changed in the repository
SetSkillsConfig(enabled, autoSync) ==
    /\ NoTimerDue
    /\ skillsConfig' = [enabled |-> enabled, autoSync |-> autoSync]
    /\ UNCHANGED <<now, watcher, burst, lastRun>>
    /\ UNCHANGED otherThanWatcher

\* time passes, but not beyond a timeout that is due
Tick ==
    /\ now < MaxTime
    /\ NoTimerDue
    /\ now' = now + 1
    /\ UNCHANGED <<watcher, skillsConfig, burst, lastRun>>
    /\ UNCHANGED otherThanWatcher

WatcherInit ==
    /\ now = 0
    /\ watcher = [debounceTimer |-> NoTimer, pending |-> {}, provider |-> FALSE]
    /\ skillsConfig = [enabled |-> TRUE, autoSync |-> TRUE]
    /\ burst = [open |-> FALSE, started |-> FALSE, last |-> 0, repeated |-> FALSE,
                runs |-> 0, cancelled |-> FALSE]
    /\ lastRun = [by |-> "none", at |-> 0, synced |-> FALSE]

WatcherNext ==
    \/ \E kind \in ServerEvents, relevant \in BOOLEAN : OnServerEvent(kind, relevant)
    \/ \E d \in 1..MaxTime : TimerFires(d)
    \/ \E kind \in SyncCalls : SyncCall(kind)
    \/ SetServerProvider
    \/ Destroy
    \/ \E enabled \in BOOLEAN, autoSync \in BOOLEAN : SetSkillsConfig(enabled, autoSync)
    \/ Tick

----------------------------------------------------------------------------
(* The gateway *)

GatewayInit ==
    /\ remote = FALSE
    /\ nextSid = 0
    /\ sseSessions = EmptyMap
    /\ sseSessionProjects = EmptyMap
    /\ stage = [s \in SessionIds |-> "new"]
    /\ conn = [s \in SessionIds |-> "none"]
    /\ frames = [s \in SessionIds |-> <<>>]
    /\ last = [kind |-> "init", route |-> "", auth |-> NoAuth, proj |-> Undefined,
               body |-> NoBody, sid |-> 0, status |-> 0, message |-> "", fwd |-> "none",
               channel |-> 0, projectId |-> Null, fwdBody |-> NoBody, wasRemote |-> FALSE,
               outcome |-> "none", responses |-> <<>>]

Init == GatewayInit /\ EntryInit /\ WatcherInit

\* The steps of the gateway, over the requests (AH: Authorization headers,
\* PH: project headers, BD: bodies) and collaborator answers (OC) a
\* specification draws from
PostSteps(AH, PH, BD, OC) ==
    \/ \E h \in AH, p \in PH, body \in BD, initOk \in BOOLEAN, outcome \in OC :
            McpPost(h, p, body, initOk, outcome)
    \/ \E h \in AH, p \in PH, body \in BD, outcome \in OC :
            AggregatorPost(h, p, body, outcome)

SseSteps(AH, PH) ==
    \/ \E h \in AH, p \in PH : SseGet(h, p)
    \/ \E sid \in SessionIds : ResClose(sid)

ConnectSteps(OC) ==
    \E sid \in SessionIds, outcome \in OC : SseConnected(sid, outcome)

MessageSteps(AH, PH, BD, OC) ==
    \E h \in AH, q \in SidInputs, hs \in {0, 1}, p \in PH, body \in BD, outcome \in OC :
        MessagesPost(h, q, hs, p, body, outcome)

ValidBearer == [present |-> TRUE, bearer |-> TRUE, id |-> "tokA"]

ObjectBody == [params |-> "object", meta |-> NoMeta]

OtherBody == [params |-> "other", meta |-> NoMeta]

\* SpecAuth: every Authorization header, on each of the four routes
AuthNext ==
    \/ PostSteps(AuthHeaders, {Undefined}, {ObjectBody}, {"ok"})
    \/ SseSteps(AuthHeaders, {Undefined})
    \/ ConnectSteps({"ok"})
    \/ MessageSteps(AuthHeaders, {Undefined}, {ObjectBody}, {"ok"})

SpecAuth == Init /\ [][AuthNext]_vars

\* SpecPartition: every project header on the routes that resolve it, the
\* workspace switching between local and remote
PartitionNext ==
    \/ PostSteps({NoAuth, ValidBearer}, ProjectHeaders, {ObjectBody}, {"ok"})
    \/ SseSteps({NoAuth, ValidBearer}, ProjectHeaders)
    \/ MessageSteps({NoAuth, ValidBearer}, ProjectHeaders, {ObjectBody}, {"ok"})
    \/ SwitchWorkspace

SpecPartition == Init /\ [][PartitionNext]_vars

\* SpecSession: sessions with their captured partitions and the messages sent
\* to them, in a local workspace
SessionNext ==
    \/ SseSteps({NoAuth, ValidBearer}, ProjectHeaders)
    \/ ConnectSteps({"ok"})
    \/ MessageSteps({NoAuth, ValidBearer}, ProjectHeaders, {ObjectBody, OtherBody}, {"ok"})

SpecSession == Init /\ [][SessionNext]_vars

\* SpecStream: the life of a stream, with every way connect and the message
\* handler of the transport can end
StreamNext ==
    \/ SseSteps({NoAuth, ValidBearer}, {Undefined, "ghost"})
    \/ ConnectSteps(HandlerOutcomes)
    \/ MessageSteps({NoAuth, ValidBearer}, {Undefined}, {ObjectBody}, HandlerOutcomes)

SpecStream == Init /\ [][StreamNext]_vars

\* SpecResponse: every route, with every way the transport handlers and
\* connect can end
ResponseNext ==
    \/ PostSteps({NoAuth, ValidBearer}, {Undefined, "ghost"}, {ObjectBody}, HandlerOutcomes)
    \/ StreamNext

SpecResponse == Init /\ [][ResponseNext]_vars

\* SpecMetadata: the routes that attach metadata, over every shape of body,
\* with and without metadata of the caller's own
MetadataNext ==
    \/ PostSteps({NoAuth, ValidBearer}, {Undefined, "projA"}, Bodies, {"ok"})
    \/ SseSteps({NoAuth, ValidBearer}, {Undefined, "projA"})
    \/ MessageSteps({NoAuth, ValidBearer}, {Undefined, "", "projA"}, Bodies, {"ok"})
    \/ SwitchWorkspace

SpecMetadata == Init /\ [][MetadataNext]_vars

\* SpecForward: the two POST routes that forward a JSON-RPC body, over every
\* shape of body and every way the transport handler can end
ForwardNext ==
    \/ PostSteps({NoAuth, ValidBearer}, ProjectHeaders, Bodies, HandlerOutcomes)
    \/ SwitchWorkspace

SpecForward == Init /\ [][ForwardNext]_vars

\* SpecWatcher: the SkillsWatcher under server events, direct sync calls,
\* configuration changes and the passing of time. Time passes and due
\* timeouts run: the event loop keeps running.
SpecWatcher ==
    /\ Init
    /\ [][WatcherNext]_vars
    /\ WF_vars(Tick)
    /\ WF_vars(\E d \in 1..MaxTime : TimerFires(d))

\* SpecEntry: calls of the Entry service against a registry that changes
\* while they are served
EntryNext == CallSteps \/ ListSteps \/ RegistrySteps

SpecEntry == Init /\ [][EntryNext]_vars

\* SpecFacade: requests to the Entry server, served by the Entry service
\* against a registry that changes while they are served
FacadeNext ==
    \/ FacadeSteps
    \/ RegistryStepsOver({"running", "stopped"}, {"read_file"}, {"unset", "deny"},
                         {{}, Tools})

SpecFacade == Init /\ [][FacadeNext]_vars

\* SpecLogging: requests to the Entry server while the logging collaborator
\* works or fails
LoggingNext ==
    \/ FacadeSteps
    \/ \E mode \in LoggerModes : SetLogger(mode)
    \/ RegistryStepsOver({"running", "stopped"}, {"read_file"}, {"unset", "deny"},
                         {{}, Tools})

SpecLogging == Init /\ [][LoggingNext]_vars

----------------------------------------------------------------------------
(* Properties of the gateway *)

sessionState == <<nextSid, sseSessions, sseSessionProjects, stage, conn, frames>>

\* no Authorization header, or a token the validator rejects
Unauthorized(h) == ~h.present \/ ~validateToken(h.id).isValid

\* a project header that names a project the repository does not know
UnknownPartition(p) ==
    /\ p # Undefined
    /\ Trim(p) \notin {"", UNASSIGNED_PROJECT_ID}
    /\ findByName(Trim(p)) = Undefined

MessageRequest == last.kind = "request" /\ last.route = "/mcp/messages"

C2_UnknownPartitionIsRejected ==
    [][ ( /\ last'.kind = "request"
          /\ last'.route \in {"/mcp/aggregator", "/mcp/sse"}
          /\ ~Unauthorized(last'.auth)
          /\ ~remote
          /\ UnknownPartition(last'.proj) ) =>
            /\ last'.status = 400
            /\ last'.message = "Project " \o Trim(last'.proj) \o " not found"
            /\ last'.fwd = "none"
            /\ UNCHANGED sessionState ]_gatewayVars

\* C2 witness: a stream open with an unknown project was answered 400 in a
\* local workspace.
C2_Witness ==
    /\ last.kind = "request"
    /\ last.route = "/mcp/sse"
    /\ last.proj = "ghost"
    /\ ~last.wasRemote
    /\ last.status = 400

\* C3: once a stream's connection has closed its sessionId is in neither map
\* of the session table, and a message naming it is answered 404 and not
\* forwarded.
C3_ClosedSessionIsGone ==
    /\ \A sid \in SessionIds :
         conn[sid] = "closed" =>
            ~MapHas(sseSessions, sid) /\ ~MapHas(sseSessionProjects, sid)
    /\ ( /\ MessageRequest
         /\ ~Unauthorized(last.auth)
         /\ last.sid \in SessionIds
         /\ conn[last.sid] = "closed" ) =>
            last.status = 404 /\ last.fwd = "none"

\* C3 witness: a message named a session whose connection had closed.
C3_Witness ==
    /\ MessageRequest
    /\ ~Unauthorized(last.auth)
    /\ last.sid \in SessionIds
    /\ conn[last.sid] = "closed"
    /\ last.status = 404

\* C4: a message for a registered session that carries no project header is
\* forwarded to that session's transport, and the partition the handler
\* attaches is the one captured when the session was opened.
C4_MessageUsesCapturedPartition ==
    ( /\ MessageRequest
      /\ ~Unauthorized(last.auth)
      /\ MapHas(sseSessions, last.sid)
      /\ last.proj = Undefined ) =>
        /\ last.fwd = "channel"
        /\ last.channel = sseSessions[last.sid]
        /\ last.projectId = sseSessionProjects[last.sid]
        /\ (last.fwdBody.meta.has =>
                last.fwdBody.meta.projectId = sseSessionProjects[last.sid])

\* C4 witness: a message without project header went to a session opened
\* under project projA.
C4_Witness ==
    /\ MessageRequest
    /\ last.fwd = "channel"
    /\ last.proj = Undefined
    /\ last.fwdBody.meta.has
    /\ last.fwdBody.meta.projectId = "idA"

\* C5: a session's stored partition never changes between registration and
\* removal; a message leaves the session table as it was, also when it
\* carries its own project header, which is used for that call.
C5_PartitionScopeIsImmutable ==
    [][ /\ \A sid \in (DOMAIN sseSessionProjects) \cap (DOMAIN sseSessionProjects') :
              sseSessionProjects'[sid] = sseSessionProjects[sid]
        /\ (last'.kind = "request" /\ last'.route = "/mcp/messages") =>
              /\ sseSessionProjects' = sseSessionProjects
              /\ sseSessions' = sseSessions
              /\ (last'.fwd = "channel" /\ last'.proj # Undefined =>
                    last'.projectId = resolveProjectFilter(last'.proj, FALSE).projectId)
      ]_gatewayVars

\* C5 witness: a message was forwarded under an override that differs from
\* the partition its session keeps.
C5_Witness ==
    /\ MessageRequest
    /\ last.fwd = "channel"
    /\ last.proj # Undefined
    /\ MapHas(sseSessionProjects, last.sid)
    /\ last.projectId # sseSessionProjects[last.sid]

C8_UnknownSessionIsRejected ==
    ( /\ MessageRequest
      /\ ~Unauthorized(last.auth)
      /\ (last.sid = 0 \/ ~MapHas(sseSessions, last.sid)) ) =>
        /\ last.fwd = "none"
        /\ last.channel = 0
        /\ last.status = IF last.sid = 0 THEN 400 ELSE 404

\* C8 witness: a message named a session id that was never handed out, while
\* another session was live.
C8_Witness ==
    /\ MessageRequest
    /\ ~Unauthorized(last.auth)
    /\ last.sid \in SessionIds
    /\ stage[last.sid] = "new"
    /\ DOMAIN sseSessions # {}
    /\ last.status = 404

----------------------------------------------------------------------------
(* Properties of the Entry service *)

ValidationCodes ==
    {"SERVER_NOT_FOUND", "SERVER_NOT_RUNNING", "SERVER_DISABLED", "TOOLS_FETCH_FAILED",
     "TOOL_NOT_FOUND", "TOOL_DISABLED"}

\* a step in which callMCPTool is entered
CallBegins == call.pc \in {"idle", "done"} /\ call'.pc # "idle" /\ call'.op = "call"
                /\ (call' # call)

\* a step in which the awaited tool list arrives
FetchEnds == call.pc = "fetching" /\ call.op = "call" /\ call'.pc # "fetching"

\* the code of the first check that fails, in the order of the claim; "" if none
FirstFailing(exists, status, disabled, fetchOk, listed, permission) ==
    IF ~exists THEN "SERVER_NOT_FOUND"
    ELSE IF status # "running" THEN "SERVER_NOT_RUNNING"
    ELSE IF disabled THEN "SERVER_DISABLED"
    ELSE IF ~fetchOk THEN "TOOLS_FETCH_FAILED"
    ELSE IF ~listed THEN "TOOL_NOT_FOUND"
    ELSE IF permission = "deny" THEN "TOOL_DISABLED"
    ELSE ""

\* C9: callMCPTool checks, in this order, that the server exists, is running,
\* is not disabled, that the tool list can be fetched and has the tool, and
\* that the tool's permission is not false. The error code returned is that
\* of the first failing check; after a failing server check no tool list is
\* fetched, and after any failing check the call primitive is not invoked.
C9_ValidationOrder ==
    [][ /\ CallBegins =>
            LET server == findServer(call'.mcpName)
                code == FirstFailing(server.exists, server.status, server.disabled,
                                     TRUE, TRUE, "unset")
            IN IF code # ""
               THEN /\ call'.pc = "done"
                    /\ call'.isError
                    /\ call'.errorCode = code
                    /\ call'.fetches = 0
                    /\ call'.invoked = <<>>
               ELSE /\ call'.pc = "fetching"
                    /\ call'.fetches = 1
                    /\ call'.invoked = <<>>
        /\ FetchEnds =>
            LET code == FirstFailing(TRUE, "running", FALSE, call'.fetchOk,
                                     call.toolName \in liveTools, call'.permission)
            IN /\ call'.fetches = 1
               /\ call'.permission \in
                    {call.seenPermission, registry.toolPermissions[call.toolName], "unset"}
               /\ IF code # ""
                  THEN /\ call'.pc = "done"
                       /\ call'.isError
                       /\ call'.errorCode = code
                       /\ call'.invoked = <<>>
                  ELSE /\ call'.pc = "calling"
                       /\ Len(call'.invoked) = 1
        /\ (call'.errorCode \in ValidationCodes) => call'.invoked = <<>>
      ]_vars

\* C9 witness: a call to a server that is both stopped and disabled was
\* answered with the code of the earlier check.
C9_Witness ==
    /\ call.pc = "done"
    /\ call.seen.exists
    /\ call.seen.status = "stopped"
    /\ call.seen.disabled
    /\ call.errorCode = "SERVER_NOT_RUNNING"
    /\ call.fetches = 0

\* C10: callMCPTool against a server whose status is not running returns an
\* error result with code SERVER_NOT_RUNNING and does not invoke the call
\* primitive.
C10_NotRunningIsRejected ==
    [][ ( /\ CallBegins
          /\ call'.mcpName = ServerName
          /\ registry.exists
          /\ registry.status # "running" ) =>
            /\ call'.pc = "done"
            /\ call'.isError
            /\ call'.errorCode = "SERVER_NOT_RUNNING"
            /\ call'.invoked = <<>> ]_vars

\* C10 witness: a call to a starting, enabled server was turned down.
C10_Witness ==
    /\ call.pc = "done"
    /\ call.seen.exists
    /\ call.seen.status = "starting"
    /\ ~call.seen.disabled
    /\ call.errorCode = "SERVER_NOT_RUNNING"
    /\ call.invoked = <<>>

\* the elements of a sequence
Range(seq) == {seq[i] : i \in DOMAIN seq}

\* a step in which the validation of callMCPTool comes to its verdict
Decided ==
    /\ call.pc \in {"idle", "done", "fetching"}
    /\ call'.pc \in {"done", "calling"}
    /\ call'.op = "call"
    /\ call' # call

\* the permission validateCallParams reads after the fetch is false, whether
\* it reads the server object it found or the registry's current one
PermissionIsFalse ==
    /\ call.seenPermission = "deny"
    /\ registry.exists => registry.toolPermissions[call.toolName] = "deny"

\* C11 as stated: callMCPTool against a disabled server returns
\* SERVER_DISABLED, and against a tool whose toolPermissions entry is false
\* returns TOOL_DISABLED; in both cases the call primitive is not invoked.
C11_DisabledReportsDisabled ==
    [][ /\ ( /\ CallBegins
             /\ call'.mcpName = ServerName
             /\ registry.exists
             /\ registry.disabled ) =>
                /\ call'.pc = "done"
                /\ call'.errorCode = "SERVER_DISABLED"
                /\ call'.invoked = <<>>
        /\ ( /\ Decided
             /\ call'.mcpName = ServerName
             /\ registry.exists
             /\ registry.toolPermissions[call'.toolName] = "deny" ) =>
                /\ call'.pc = "done"
                /\ call'.errorCode = "TOOL_DISABLED"
                /\ call'.invoked = <<>>
      ]_vars

\* C11: callMCPTool against a server that is running and disabled returns
\* SERVER_DISABLED, and a disabled server that is not running returns
\* SERVER_NOT_RUNNING; against a tool that is in the fetched list of a
\* running, enabled server and whose toolPermissions entry is false it
\* returns TOOL_DISABLED. In all these cases the call primitive is not invoked.
C11_DisabledIsRejected ==
    [][ /\ ( /\ CallBegins
             /\ call'.mcpName = ServerName
             /\ registry.exists
             /\ registry.disabled ) =>
                /\ call'.pc = "done"
                /\ call'.isError
                /\ call'.errorCode = IF registry.status = "running"
                                     THEN "SERVER_DISABLED" ELSE "SERVER_NOT_RUNNING"
                /\ call'.fetches = 0
                /\ call'.invoked = <<>>
        /\ ( /\ FetchEnds
             /\ call'.fetchOk
             /\ call.toolName \in liveTools
             /\ PermissionIsFalse ) =>
                /\ call'.pc = "done"
                /\ call'.isError
                /\ call'.errorCode = "TOOL_DISABLED"
                /\ call'.invoked = <<>>
      ]_vars

\* C11 witness: a call to a listed tool of a running, enabled server was
\* turned down because the tool's permission is false.
C11_Witness ==
    /\ call.pc = "done"
    /\ call.seen.status = "running"
    /\ ~call.seen.disabled
    /\ call.fetchOk
    /\ call.listed
    /\ call.permission = "deny"
    /\ call.errorCode = "TOOL_DISABLED"
    /\ call.invoked = <<>>

\* C12: when the validation has passed and deps.callTool throws, callMCPTool
\* returns a result (it does not throw) with isError true, errorCode
\* CALL_FAILED and the thrown message in the content text.
C12_ThrowBecomesCallFailed ==
    [][ ( /\ call.pc = "calling"
          /\ call'.pc # "calling"
          /\ call'.backend = "throw" ) =>
            /\ call'.pc = "done"
            /\ call'.thrown \in ThrownMessages
            /\ call'.isError
            /\ call'.errorCode = "CALL_FAILED"
            /\ call'.thrown \in Range(call'.text)
            /\ call'.invoked = call.invoked ]_vars

\* C12 witness: a call whose backend request timed out came back as a
\* CALL_FAILED result.
C12_Witness ==
    /\ call.pc = "done"
    /\ call.backend = "throw"
    /\ call.thrown = "Request timed out"
    /\ call.errorCode = "CALL_FAILED"
    /\ Len(call.invoked) = 1

\* C13: when every check passes, callMCPTool invokes deps.callTool exactly
\* once, with the caller's mcpName, toolName and arguments; when the backend
\* returns without an error flag the result has isError false.
C13_PassingCallIsInvokedOnce ==
    [][ /\ ( /\ FetchEnds
             /\ call'.fetchOk
             /\ call.toolName \in liveTools
             /\ call'.permission # "deny" ) =>
                /\ call'.pc = "calling"
                /\ call'.invoked = << [mcpName |-> call.mcpName,
                                       toolName |-> call.toolName,
                                       args |-> call.args] >>
        /\ ( call.pc = "calling" /\ call'.pc # "calling" ) =>
                /\ call'.pc = "done"
                /\ call'.invoked = call.invoked
                /\ Len(call'.invoked) = 1
                /\ <<call'.mcpName, call'.toolName, call'.args>>
                       = <<call.mcpName, call.toolName, call.args>>
                /\ (call'.backend = "result" => ~call'.isError /\ call'.errorCode = "")
        /\ CallBegins => call'.invoked = <<>>
      ]_vars

\* C13 witness: a call with arguments argsY went through to the backend once
\* and came back without an error.
C13_Witness ==
    /\ call.pc = "done"
    /\ call.backend = "result"
    /\ ~call.isError
    /\ call.invoked = << [mcpName |-> ServerName, toolName |-> "write_file",
                          args |-> "argsY"] >>

\* a step in which listMCPTools is entered
ListBegins == call.pc \in {"idle", "done"} /\ call'.op = "list" /\ call' # call

C15_ListSkipsUnavailableServers ==
    [][ /\ ( /\ ListBegins
             /\ call'.mcpName \notin {"", Undefined}
             /\ ~( /\ call'.mcpName = ServerName
                   /\ registry.exists
                   /\ registry.status = "running"
                   /\ ~registry.disabled ) ) =>
                /\ call'.pc = "done"
                /\ call'.servers = <<>>
                /\ call'.mcpName \in Range(call'.message)
                /\ call'.fetches = 0
        /\ ( /\ ListBegins
             /\ call'.mcpName = ServerName
             /\ registry.exists
             /\ registry.status = "running"
             /\ ~registry.disabled ) =>
                /\ call'.pc = "fetching"
                /\ call'.seen = [exists |-> TRUE, status |-> "running", disabled |-> FALSE]
        /\ ( call'.op = "list" /\ call'.servers # <<>> ) =>
                /\ Len(call'.servers) = 1
                /\ call'.servers[1].name = call'.mcpName
                /\ call'.seen.exists
                /\ call'.seen.status = "running"
                /\ ~call'.seen.disabled
      ]_vars

\* C15 witness: a list request naming a running but disabled server came
\* back empty with a message naming it.
C15_Witness ==
    /\ call.pc = "done"
    /\ call.op = "list"
    /\ call.mcpName = ServerName
    /\ call.servers = <<>>
    /\ ServerName \in Range(call.message)
    /\ registry.exists
    /\ registry.status = "running"
    /\ registry.disabled
    /\ call.fetches = 0

----------------------------------------------------------------------------
(* Properties of the Entry server *)

\* C16: the answer to a tools/list request holds exactly the two descriptors
\* list_mcp_tools and call_mcp_tool, whatever the registry holds; no backend
\* tool is in it.
C16_ListToolsIsFixed ==
    facade.request = "tools/list" =>
        /\ facade.pc = "done"
        /\ facade.tools = <<"list_mcp_tools", "call_mcp_tool">>
        /\ Range(facade.tools) \cap Tools = {}

\* C16 witness: a tools/list request was answered while a running, enabled
\* server advertised its tools.
C16_Witness ==
    /\ facade.request = "tools/list"
    /\ facade.pc = "done"
    /\ registry.exists
    /\ registry.status = "running"
    /\ ~registry.disabled
    /\ liveTools = Tools

\* C20: every tools/call request the Entry server has handled, whether it
\* succeeded or failed (an unknown operation name and a call_mcp_tool without
\* mcpName or toolName included), has left exactly one record with the
\* logging collaborator, holding timestamp, operation name, parameters,
\* outcome and elapsed time.
C20_EveryCallIsLogged ==
    ( facade.request = "tools/call" /\ facade.pc = "done" ) =>
        /\ Len(facade.logs) = 1
        /\ facade.logs[1].timestamp # ""
        /\ facade.name \in Range(facade.logs[1].requestType)
        /\ facade.logs[1].params.mcpName = facade.args.mcpName
        /\ facade.logs[1].result \in {"success", "error"}
        /\ (facade.response.isError /\ facade.name = "call_mcp_tool"
                => facade.logs[1].result = "error")
        /\ facade.logs[1].duration # ""

\* C20, the requests that are logged: a list_mcp_tools request, and a
\* call_mcp_tool request that names a server and a tool, leave exactly one
\* record.
C20_ServedCallIsLogged ==
    ( /\ facade.request = "tools/call"
      /\ facade.pc = "done"
      /\ \/ facade.name = "list_mcp_tools"
         \/ /\ facade.name = "call_mcp_tool"
            /\ ~NameMissing(facade.args.mcpName)
            /\ ~NameMissing(facade.args.toolName) ) =>
        /\ Len(facade.logs) = 1
        /\ facade.name \in Range(facade.logs[1].requestType)
        /\ facade.logs[1].result \in {"success", "error"}

\* C20 witness: a call_mcp_tool request without mcpName was answered with an
\* error and left no record.
C20_UnloggedCall ==
    /\ facade.request = "tools/call"
    /\ facade.pc = "done"
    /\ facade.name = "call_mcp_tool"
    /\ facade.args.mcpName = Undefined
    /\ facade.response.isError
    /\ facade.logs = <<>>

----------------------------------------------------------------------------
(* Properties of what the gateway forwards *)

\* C17: every request POST /mcp/aggregator forwards to the aggregator
\* transport carries in params._meta the caller's token and the resolved
\* project id, whatever the shape of the body (params absent, an object, or
\* any other value).
C17_AggregatorForwardsMetadata ==
    ( /\ last.kind = "request"
      /\ last.route = "/mcp/aggregator"
      /\ last.fwd = "aggregator" ) =>
        /\ last.fwdBody.meta.has
        /\ last.fwdBody.meta.token = last.auth.id
        /\ last.fwdBody.meta.projectId
              = resolveProjectFilter(last.proj, last.wasRemote).projectId

\* C17, the bodies that get the metadata: when params is absent or an object
\* the forwarded body carries the header's token and the resolved project id.
C17_ObjectParamsCarryMetadata ==
    ( /\ last.kind = "request"
      /\ last.route = "/mcp/aggregator"
      /\ last.fwd = "aggregator"
      /\ last.body.params \in {"undefined", "object"} ) =>
        /\ last.fwdBody.meta.has
        /\ last.fwdBody.meta.token = last.auth.id
        /\ last.fwdBody.meta.projectId
              = resolveProjectFilter(last.proj, last.wasRemote).projectId

\* C17 witness: a body whose params is neither absent nor an object went to
\* the aggregator transport without metadata.
C17_ForwardedWithoutMetadata ==
    /\ last.kind = "request"
    /\ last.route = "/mcp/aggregator"
    /\ last.fwd = "aggregator"
    /\ last.proj = "projA"
    /\ last.body.params = "other"
    /\ ~last.fwdBody.meta.has

\* C18: every authenticated POST /mcp request is forwarded to the Entry
\* server's transport with the caller's project and token attached as
\* metadata.
C18_FacadeForwardsMetadata ==
    ( /\ last.kind = "request"
      /\ last.route = "/mcp"
      /\ ~Unauthorized(last.auth)
      /\ last.status # 500 ) =>
        /\ last.fwd = "entry"
        /\ last.fwdBody.meta.has
        /\ last.fwdBody.meta.token = last.auth.id
        /\ last.fwdBody.meta.projectId
              = resolveProjectFilter(last.proj, last.wasRemote).projectId

\* C18 witness: an authenticated POST /mcp with a project header and an
\* object body reached the Entry transport as it came, without metadata.
C18_ForwardedAsReceived ==
    /\ last.kind = "request"
    /\ last.route = "/mcp"
    /\ last.fwd = "entry"
    /\ last.proj = "projA"
    /\ last.body = ObjectBody
    /\ last.fwdBody = last.body
    /\ ~last.fwdBody.meta.has

\* an authenticated request with a project header on a route that resolves
\* the header under the workspace rule
ScopedRequest ==
    /\ last.kind = "request"
    /\ last.route \in {"/mcp/aggregator", "/mcp/sse"}
    /\ ~Unauthorized(last.auth)
    /\ last.proj # Undefined

ServedRequest ==
    /\ facade.request = "tools/call"
    /\ facade.pc = "done"
    /\ \/ facade.name = "list_mcp_tools"
       \/ /\ facade.name = "call_mcp_tool"
          /\ ~NameMissing(facade.args.mcpName)
          /\ ~NameMissing(facade.args.toolName)

\* C21: when the logging collaborator throws while a facade call is recorded,
\* the caller gets the response it would have got had the logging succeeded:
\* the result computed from the service call.
C21_LoggingFailureKeepsResponse ==
    ServedRequest =>
        /\ ~facade.threw
        /\ facade.response = servedResponse(facade, call)

\* C21, with a working logger: the response is the result computed from the
\* service call and the record is written.
C21_WorkingLoggerKeepsResponse ==
    ( ServedRequest /\ facade.logs # <<>> /\ facade.logs[1].errorMessage = Undefined ) =>
        /\ ~facade.threw
        /\ facade.response = servedResponse(facade, call)

\* C21 witness: a list_mcp_tools request for a running server was served, the
\* logger threw once, and the caller got the logger's error for an answer.
C21_LoggerErrorReturned ==
    /\ ServedRequest
    /\ facade.name = "list_mcp_tools"
    /\ call.servers # <<>>
    /\ facade.response.isError
    /\ facade.response.text = <<"Error: ", LogErrorMessage>>

\* the descriptor of call_mcp_tool in the answer to a tools/list request
CallToolDescriptors ==
    {d \in Range(facade.descriptors) : d.name = "call_mcp_tool"}

\* C22: the call_mcp_tool descriptor of the tool listing declares the inputs
\* mcpName (required), toolName (required), arguments, and an optional
\* numeric timeoutSec.
C22_CallDescriptorDeclaresTimeout ==
    facade.request = "tools/list" =>
        /\ CallToolDescriptors # {}
        /\ \A d \in CallToolDescriptors :
              /\ [name |-> "mcpName", type |-> "string"] \in d.properties
              /\ [name |-> "toolName", type |-> "string"] \in d.properties
              /\ [name |-> "arguments", type |-> "object"] \in d.properties
              /\ [name |-> "timeoutSec", type |-> "number"] \in d.properties
              /\ d.required = {"mcpName", "toolName"}

\* C22, the inputs that are declared: mcpName and toolName, both required,
\* and arguments.
C22_CallDescriptorDeclaresNames ==
    facade.request = "tools/list" =>
        /\ CallToolDescriptors # {}
        /\ \A d \in CallToolDescriptors :
              /\ {p.name : p \in d.properties} = {"mcpName", "toolName", "arguments"}
              /\ d.required = {"mcpName", "toolName"}

\* C22 witness: the listing was answered with a call_mcp_tool descriptor that
\* has no timeoutSec input.
C22_DescriptorWithoutTimeout ==
    /\ facade.request = "tools/list"
    /\ facade.pc = "done"
    /\ \E d \in CallToolDescriptors : "timeoutSec" \notin {p.name : p \in d.properties}

----------------------------------------------------------------------------
(* Properties of the fetched tool list *)

\* a step in which the awaited tool list arrives, for a call or a listing
AnyFetchEnds == call.pc = "fetching" /\ call'.pc # "fetching"

\* C26: a call_mcp_tool that passes the server checks, and a list_mcp_tools
\* with a matching server, fetches the server's tool list once during the
\* request and decides on the list the backend has when the fetch resolves:
\* a tool that the backend no longer has is answered TOOL_NOT_FOUND and not
\* invoked, whatever an earlier request found, and a listing shows the
\* tools the backend has now.
C26_DecidesOnFetchedList ==
    [][ /\ (call.pc \in {"idle", "done"} /\ call' # call) =>
              call'.fetches = IF call'.pc = "fetching" THEN 1 ELSE 0
        /\ AnyFetchEnds =>
              /\ call.fetches = 1
              /\ call'.fetches = 1
              /\ (call'.fetchOk /\ call.op = "call") =>
                    /\ call'.listed = (call.toolName \in liveTools)
                    /\ IF call.toolName \in liveTools
                       THEN call'.errorCode # "TOOL_NOT_FOUND"
                       ELSE /\ call'.pc = "done"
                            /\ call'.isError
                            /\ call'.errorCode = "TOOL_NOT_FOUND"
                            /\ call'.invoked = <<>>
              /\ (call'.fetchOk /\ call.op = "list") =>
                    /\ call'.servers[1].tools = liveTools
                    /\ call'.servers[1].toolCount = Cardinality(liveTools)
      ]_vars

\* C26 witness: the request before reached read_file on the backend; the
\* backend then lost the tool, and this request was answered TOOL_NOT_FOUND
\* after a fetch of its own.
C26_Witness ==
    /\ facade.pc = "done"
    /\ facade.name = "call_mcp_tool"
    /\ facade.served = "read_file"
    /\ call.pc = "done"
    /\ call.toolName = "read_file"
    /\ call.fetches = 1
    /\ call.fetchOk
    /\ call.errorCode = "TOOL_NOT_FOUND"
    /\ call.invoked = <<>>

\* C27: under any interleaving of registry changes with a call_mcp_tool in
\* flight, deps.callTool is invoked only for a server that, at the moment of
\* the invocation, exists, is running, is not disabled and does not have the
\* tool's permission set to false.
C27_InvokedOnlyWhenAvailable ==
    call.invoked # <<>> => call.invokedOn = ""

\* C27: a call that found its server running and enabled invoked
\* deps.callTool after the server had been disabled during the fetch of the
\* tool list.
C27_InvokedOnDisabledServer ==
    /\ call.invoked # <<>>
    /\ call.seen.exists
    /\ call.seen.status = "running"
    /\ ~call.seen.disabled
    /\ call.invokedOn = "SERVER_DISABLED"

----------------------------------------------------------------------------
(* Properties of the responses *)

\* C24: a request receives at most one response. The 500 envelope is written
\* only when no response has been started: after a transport handler that
\* threw with its response started, the response stays the transport's, and
\* an event stream that was started is not ended by a 500. A throw of a
\* transport handler or of connect is caught: the request is settled with one
\* response, or with the stream left as it was.
C24_AtMostOneResponse ==
    /\ last.kind = "request" =>
          /\ Len(last.responses) <= 1
          /\ (last.fwd \notin {"none", "connect"} => Len(last.responses) = 1)
          /\ (last.outcome = "throwEarly" => last.responses = <<500>>)
          /\ (last.outcome = "throwLate" =>
                  last.responses = <<IF last.route = "/mcp/messages" THEN 202 ELSE 200>>)
          /\ (last.responses # <<>> => last.status = last.responses[1])
    /\ \A sid \in SessionIds :
          /\ conn[sid] = "ended" => (stage[sid] = "errored" /\ frames[sid] = <<>>)
          /\ (stage[sid] = "errored" /\ frames[sid] # <<>>) => conn[sid] # "ended"

\* C24 witness: a message whose transport handler threw after it had answered
\* kept that answer, while a stream whose connect failed after the stream
\* was started is still open.
C24_Witness ==
    /\ MessageRequest
    /\ last.outcome = "throwLate"
    /\ last.responses = <<202>>
    /\ \E sid \in SessionIds :
          stage[sid] = "errored" /\ frames[sid] # <<>> /\ conn[sid] = "open"

\* C25: the two maps of the session table, sessionId to channel and
\* sessionId to partition, have the same key set in every state another
\* handler can see: the open inserts into both and the close deletes from
\* both in one step.
C25_MapsShareKeys ==
    /\ DOMAIN sseSessions = DOMAIN sseSessionProjects
    /\ \A sid \in DOMAIN sseSessions : sseSessions[sid] = sid

\* C25 witness: after two opens and the close of the first stream both maps
\* hold the second session only.
C25_Witness ==
    /\ conn[1] = "closed"
    /\ DOMAIN sseSessions = {2}
    /\ DOMAIN sseSessionProjects = {2}
    /\ last.kind = "close"

\* C28: every entry of the session table belongs to a stream whose open did
\* not fail and whose connection has not closed.
C28_RegisteredStreamsAreOpen ==
    \A sid \in DOMAIN sseSessions :
        /\ stage[sid] # "errored"
        /\ conn[sid] = "open"

\* C28: the connect of a stream failed and the handler returned, and the
\* session is still in both maps of the session table.
C28_FailedOpenStaysRegistered ==
    \E sid \in SessionIds :
        /\ stage[sid] = "errored"
        /\ last = Event("connected", sid)
        /\ MapHas(sseSessions, sid)
        /\ MapHas(sseSessionProjects, sid)

MetadataRequest ==
    /\ last.kind = "request"
    /\ last.route \in {"/mcp/aggregator", "/mcp/messages"}
    /\ last.fwd \in {"aggregator", "channel"}

\* C30: on POST /mcp/aggregator and POST /mcp/messages the caller cannot
\* choose the token or the project through the body: whenever the forwarded
\* body carries _meta.token and _meta.projectId they are the token of the
\* Authorization header and the project the gateway resolved, so a body with
\* metadata of the caller's own is forwarded as the same body without it.
C30_CallerCannotChooseMetadata ==
    MetadataRequest =>
        /\ last.fwdBody.meta.has =>
              /\ last.fwdBody.meta.token = last.auth.id
              /\ last.fwdBody.meta.projectId = last.projectId
        /\ last.body.params = "object" =>
              last.fwdBody = [params |-> "object",
                              meta |-> [has |-> TRUE, token |-> last.auth.id,
                                        projectId |-> last.projectId]]
        /\ last.body.meta.has => last.fwdBody.meta.has

\* C30 witness: a message whose body named a token and a project of the
\* caller's choice was forwarded with the header's token and the project the
\* session was opened under.
C30_Witness ==
    /\ MetadataRequest
    /\ last.route = "/mcp/messages"
    /\ last.proj = Undefined
    /\ last.body.meta = CallerMeta
    /\ last.fwdBody.meta = [has |-> TRUE, token |-> "tokA", projectId |-> "idA"]

----------------------------------------------------------------------------
(* Properties of the SkillsWatcher *)

\* a step in which a timeout runs syncNow
TimerSync == burst'.runs = burst.runs + 1

====
